---- MODULE Spec2Model ----
(***************************************************************************)
(* A model of the VBF archive reader of the FF12 Mod Organizer plugin:     *)
(* ff12/Archive/Reader.py (ArchiveReader) and its background loader        *)
(* ff12/Archive/Loader.py (ArchiveLoader).                                 *)
(*                                                                         *)
(* Bytes are not modelled one by one.  A byte string is a sequence of      *)
(* segments [k, id, from, len]: len bytes taken from index `from` of a     *)
(* source, the source being the fresh zero-filled buffer (k = "zero"), the *)
(* archive file itself (k = "file", from = absolute file offset) or the    *)
(* output of inflating the stored block that starts at file offset id      *)
(* (k = "z").  Lengths and offsets keep their real values.                 *)
(***************************************************************************)
EXTENDS Integers, Sequences, FiniteSets, TLC

\* ---------------------------------------------------------------- bounds
\* The largest number of file records of an archive.
MaxFiles == 2

\* ------------------------------------------------------ program constants
MAX_BLOCK_SIZE == 65536
MAGIC == 1264144979          \* 0x4B595253
HEADER_SIZE == 16            \* struct "<IIQ"
CHECKSUM_SIZE == 16          \* one MD5 per file name, skipped
RECORD_SIZE == 32            \* struct "<IIQQQ"
SIZE_FIELD == 4              \* struct "<I", the path blob's size field
U16_SIZE == 2                \* struct "H", one block size

NUL == "NUL"

\* ------------------------------------------------------------- arithmetic
Min(a, b) == IF a < b THEN a ELSE b
Max(a, b) == IF a > b THEN a ELSE b

RECURSIVE SumSeq(_)
SumSeq(s) == IF s = <<>> THEN 0 ELSE Head(s) + SumSeq(Tail(s))

RECURSIVE Flatten(_)
Flatten(ss) == IF ss = <<>> THEN <<>> ELSE Head(ss) \o Flatten(Tail(ss))

\* Python's s[a:b] on a sequence, 0 <= a: both ends are clamped to len(s).
PySlice(s, a, b) ==
    LET lo == Min(a, Len(s))
        hi == Max(lo, Min(b, Len(s)))
    IN  SubSeq(s, lo + 1, hi)

\* --------------------------------------------------------- byte strings
Seg(k, id, from, len) == [k |-> k, id |-> id, from |-> from, len |-> len]
Zeros(n) == IF n = 0 THEN <<>> ELSE <<Seg("zero", 0, 0, n)>>
FileBytes(pos, n) == IF n = 0 THEN <<>> ELSE <<Seg("file", 0, pos, n)>>
Inflated(off, n) == IF n = 0 THEN <<>> ELSE <<Seg("z", off, 0, n)>>

RECURSIVE BLen(_)
BLen(b) == IF b = <<>> THEN 0 ELSE Head(b).len + BLen(Tail(b))

\* The first n bytes of b (all of b when it is shorter).
RECURSIVE BTake(_, _)
BTake(b, n) ==
    IF b = <<>> \/ n <= 0 THEN <<>>
    ELSE IF Head(b).len <= n
         THEN <<Head(b)>> \o BTake(Tail(b), n - Head(b).len)
         ELSE <<[Head(b) EXCEPT !.len = n]>>

\* b without its first n bytes.
RECURSIVE BDrop(_, _)
BDrop(b, n) ==
    IF b = <<>> THEN <<>>
    ELSE IF n <= 0 THEN b
    ELSE IF Head(b).len <= n THEN BDrop(Tail(b), n - Head(b).len)
    ELSE <<[Head(b) EXCEPT
              !.from = IF Head(b).k = "zero" THEN 0 ELSE @ + n,
              !.len = @ - n]>> \o Tail(b)

\* bytearray slice assignment  data[a:b] = new  (0 <= a <= b): the slice is
\* clamped to the buffer, so the buffer grows when the slice runs past its end.
SliceAssign(data, a, b, new) ==
    LET lo == Min(a, BLen(data))
        hi == Max(lo, Min(b, BLen(data)))
    IN  BTake(data, lo) \o new \o BDrop(data, hi)

\* ------------------------------------------------------ the archive file
\* A file of the archive as an encoder lays it out: its path, its size, the
\* u16 block sizes it declares and, per stored block, what inflating the
\* stored bytes yields: a length, or -1 when the bytes are no zlib stream.
File(path, size, decl, z) ==
    [path |-> path, original_size |-> size, decl |-> decl, z |-> z]

Templates ==
    { File(<<"e">>, 0, <<>>, <<>>),                        \* empty file, no block
      File(<<"A">>, 65536, <<0>>, <<-1>>),                 \* one full raw block
      File(<<"a">>, 70000, <<0, 4464>>, <<-1, -1>>),       \* raw, raw tail
      File(<<"D", "/", "b">>, 70000, <<4464, 100>>, <<65536, 4464>>),
                                                           \* both deflated
      File(<<"c">>, 4464, <<100>>, <<10>>),                \* inflates short
      File(<<"x">>, 4464, <<100>>, <<-1>>),                \* corrupt stream
      File(<<"g">>, 4464, <<0>>, <<-1>>) }                 \* full block, small file

\* What can be wrong with an archive file on disk.
Defects ==
    { "none", "magic", "skew", "long_table", "unterminated",
      "cut_header", "cut_records", "cut_pathsize", "cut_paths",
      "cut_sizes", "cut_data" }

TemplateSeqs == UNION { [1..n -> Templates] : n \in 0..MaxFiles }

OnDisk(declared) == IF declared = 0 THEN MAX_BLOCK_SIZE ELSE declared

\* Sum of the first i - 1 elements of s.
Before(s, i) == SumSeq(SubSeq(s, 1, i - 1))

MkArchive(tpls, defect) ==
    LET n == Len(tpls)
        PathBytes(t) == t.path \o <<NUL>>
        NBlocks(t) == Len(t.decl)
        Stored(t) == SumSeq([k \in 1..Len(t.decl) |-> OnDisk(t.decl[k])])
        path_bytes == [i \in 1..n |-> PathBytes(tpls[i])]
        all_paths == Flatten(path_bytes)
        \* "unterminated": the blob ends without the NUL of its last path
        path_data == IF defect = "unterminated"
                     THEN SubSeq(all_paths, 1, Len(all_paths) - 1)
                     ELSE all_paths
        \* "long_table": the table holds one u16 more than the files need
        table == Flatten([i \in 1..n |-> tpls[i].decl])
                 \o (IF defect = "long_table" THEN <<0>> ELSE <<>>)
        recs_end == HEADER_SIZE + CHECKSUM_SIZE * n + RECORD_SIZE * n
        paths_end == recs_end + SIZE_FIELD + Len(path_data)
        meta_end == paths_end + U16_SIZE * Len(table)
        stored_len == [i \in 1..n |-> Stored(tpls[i])]
        data_offset(i) == meta_end + Before(stored_len, i)
        total == meta_end + SumSeq(stored_len)
        BlockOff(i, k) ==
            data_offset(i)
            + Before([j \in 1..Len(tpls[i].decl) |-> OnDisk(tpls[i].decl[j])], k)
    IN  [ magic |-> IF defect = "magic" THEN 0 ELSE MAGIC,
          header_size |-> meta_end,
          file_count |-> n,
          records |->
            [i \in 1..n |->
               [block_sizes_start_index |->
                    Before([j \in 1..n |-> NBlocks(tpls[j])], i)
                    + (IF defect = "skew" THEN 1 ELSE 0),
                original_size |-> tpls[i].original_size,
                data_offset |-> data_offset(i),
                filepath_offset |->
                    Before([j \in 1..n |-> Len(path_bytes[j])], i)]],
          path_size |-> SIZE_FIELD + Len(path_data),
          path_data |-> path_data,
          table |-> table,
          stored |->
            Flatten([i \in 1..n |->
               [k \in 1..Len(tpls[i].decl) |->
                  [off |-> BlockOff(i, k),
                   len |-> OnDisk(tpls[i].decl[k]),
                   z |-> tpls[i].z[k]]]]),
          file_len |->
            CASE defect = "cut_header" -> HEADER_SIZE - 1
              [] defect = "cut_records" -> recs_end - 1
              [] defect = "cut_pathsize" -> recs_end + SIZE_FIELD - 1
              [] defect = "cut_paths" -> paths_end - 1
              [] defect = "cut_sizes" -> meta_end - 1
              [] defect = "cut_data" -> total - 1
              [] OTHER -> total ]

Archives == { MkArchive(t, d) : t \in TemplateSeqs, d \in Defects }

\* ------------------------------------------------- the reader's functions
\* ArchiveEntry
Entry(original_size, data_offset, block_sizes) ==
    [original_size |-> original_size, data_offset |-> data_offset,
     block_sizes |-> block_sizes]

\* blocks = original_size // _MAX_BLOCK_SIZE, plus one for a remainder
BlocksOf(original_size) ==
    (original_size \div MAX_BLOCK_SIZE)
    + (IF original_size % MAX_BLOCK_SIZE # 0 THEN 1 ELSE 0)

\* _get_block_count
GetBlockCount(file_metadata) ==
    SumSeq([i \in 1..Len(file_metadata) |->
              BlocksOf(file_metadata[i].original_size)])

\* Mutant of LowerChar: the name is kept in its on-disk spelling.
LowerCharKeep(c) == c

\* str.lower() on the characters the archives use
LowerChar(c) ==
    CASE c = "A" -> "a"
      [] c = "D" -> "d"
      [] OTHER -> c

\* data.find(b"\0", offset): the 0-based index of the first NUL at or after
\* offset, -1 when there is none.
FindNul(data, offset) ==
    LET hits == { i \in offset..(Len(data) - 1) : data[i + 1] = NUL }
    IN  IF hits = {} THEN -1
        ELSE CHOOSE i \in hits : \A j \in hits : i <= j

\* _read_null_string_lower
ReadNullStringLower(data, offset) ==
    LET found == FindNul(data, offset)
        end == IF found = -1 THEN Len(data) ELSE found
        name == PySlice(data, offset, end)
    IN  [i \in 1..Len(name) |-> LowerChar(name[i])]

\* Mutant of ReadLen: the 0 sentinel is not replaced by the full block size.
ReadLenNoSentinel(block_size) == block_size

\* if block_size == 0: block_size = _MAX_BLOCK_SIZE
ReadLen(block_size) ==
    IF block_size = 0 THEN MAX_BLOCK_SIZE ELSE block_size

\* Mutant of IsRaw: the trailing-size test is applied to every block, not
\* only to the last one.
IsRawAnyBlock(block_size, is_last_block, remaining_size) ==
    \/ block_size = MAX_BLOCK_SIZE
    \/ block_size = remaining_size

\* the raw test of unpack_file
IsRaw(block_size, is_last_block, remaining_size) ==
    \/ block_size = MAX_BLOCK_SIZE
    \/ (is_last_block /\ block_size = remaining_size)

\* file.read(n) at position pos of a file of file_len bytes: the number of
\* bytes it returns.
Avail(file_len, pos, n) == Min(n, Max(0, file_len - pos))

\* zlib.decompress of the len bytes at file offset off: the inflated length,
\* -1 for zlib.error.  Only the bytes of a whole stored deflate stream inflate.
Decompress(a, off, len) ==
    LET hits == { k \in 1..Len(a.stored) :
                    /\ a.stored[k].off = off
                    /\ a.stored[k].len = len
                    /\ a.stored[k].z >= 0 }
    IN  IF hits = {} THEN -1 ELSE a.stored[CHOOSE k \in hits : TRUE].z

\* ------------------------------------------------------------------ state
VARIABLES
    archive,      \* the archive file on disk
    pc,           \* where the thread that owns the reader is
    lm,           \* the locals of _load_metadata
    entries,      \* ArchiveReader._entries
    file_handle,  \* ArchiveReader._file_handle
    warning,      \* what _load_metadata logged with qWarning ("" = nothing)
    raised,       \* the exception that left ArchiveReader(...) ("" = none)
    emitted,      \* the signals ArchiveLoader.run has emitted
    uf,           \* the frame of the running unpack_file
    ret,          \* how the last unpack_file call ended
    prev_failed,  \* the operation before the last call was a call that
                  \* failed on a block
    last_op,      \* the method of the reader that ran last
    open_ret,     \* what open() returned, when it is the method that ran
                  \* last ("" otherwise)
    live,         \* the operating-system handles the reader has opened and
                  \* not closed
    iolog,        \* the seeks and reads of the current or last unpack_file
    batch,        \* the export batch of the view: ArchiveView._export_selection
    workers,      \* two threads, each with a reader of its own on the
                  \* archive file: its handle, its unpack_file call
    scopes,       \* the with-scopes entered on the reader and not left: for
                  \* each, whether its __enter__ left the handle open
    tree,         \* the tree of the ArchiveModel and the file node being
                  \* exported
    widget,       \* the ArchiveContainerWidget: its content widget, its
                  \* loader, the loaders it has started
    update,       \* UpdateChecker._download_and_update: where it stands,
                  \* the directories, what it has told the user
    game          \* FF12TZAGame: its suppression flag, the two Steam
                  \* settings, what the last callback did

vars == <<archive, pc, lm, entries, file_handle, warning, raised, emitted,
          uf, ret, prev_failed, last_op, open_ret, live, iolog, batch,
          workers, scopes, tree, widget, update, game>>

\* _file_handle is None
Closed == [open |-> FALSE, pos |-> 0]
\* a handle fresh from open(self._filename, "rb")
Fresh == [open |-> TRUE, pos |-> 0]

NoEntry == Entry(0, 0, <<>>)
NoFrame ==
    [active |-> FALSE, path |-> <<>>, entry |-> NoEntry, data |-> <<>>,
     buffer_pos |-> 0, block_count |-> 0]
NoRet == [path |-> <<>>, result |-> "", data |-> <<>>, buffer_pos |-> 0]

\* ArchiveReader.open; ok: whether the operating system opens the file
OpenHandle(h, ok) ==
    IF h.open THEN h
    ELSE IF ok THEN Fresh ELSE Closed

\* ArchiveReader.close
CloseHandle(h) == Closed

\* Mutant of OpenCall: open() does not test whether a handle is already held.
OpenCallReopen(h, ok) ==
    [ h |-> IF ok THEN Fresh ELSE h,
      acquired |-> IF ok THEN 1 ELSE 0,
      result |-> ok ]

\* A call of open(): the handle the reader holds afterwards, the number of
\* operating-system handles the call has opened, and the value it returns.
OpenCall(h, ok) ==
    [ h |-> OpenHandle(h, ok),
      acquired |-> IF h.open THEN 0 ELSE IF ok THEN 1 ELSE 0,
      result |-> IF h.open THEN TRUE ELSE ok ]

\* A call of close(): the handle afterwards and the number of
\* operating-system handles the call has closed.
CloseCall(h) ==
    [ h |-> CloseHandle(h),
      released |-> IF h.open THEN 1 ELSE 0 ]

\* str(bool)
PyBool(b) == IF b THEN "True" ELSE "False"

\* No export is under way.
NoBatch ==
    [state |-> "idle", files |-> <<>>, i |-> 0, exported_count |-> 0,
     failed_files |-> <<>>, left |-> "", attempts |-> <<>>,
     message |-> "", reported |-> 0]

\* The threads that unpack concurrently.
Workers == {1, 2}

\* A thread whose reader has been constructed and not used.
NoWorker ==
    [h |-> Closed, uf |-> NoFrame, ret |-> NoRet, overlap |-> FALSE]

\* ArchiveModel before set_data: no reader, a root node without children.
NoTree ==
    [keys |-> {}, built |-> FALSE, dirs |-> {}, files |-> {},
     picked |-> FALSE, node |-> <<>>, relative_path |-> <<>>,
     result |-> ""]

\* ArchiveContainerWidget after __init__: no content widget, no loader, no
\* loader started yet, nothing delivered.
NoWidget ==
    [shown |-> FALSE, current_content |-> 0, content_data |-> 0,
     loader |-> 0, loaders |-> <<>>,
     delivered |-> [from |-> 0, applied_to |-> 0, discarded |-> 0]]

\* UpdateChecker before _download_and_update runs.
NoUpdate ==
    [pc |-> "start", update_targets |-> <<>>, remove_targets |-> <<>>,
     found_targets |-> <<>>, remove_i |-> 0, copy_i |-> 0,
     changes_done |-> FALSE, replaced |-> "", restored |-> "",
     tmpdir |-> FALSE, backup_dir |-> FALSE, shown |-> "",
     opened |-> FALSE, installed |-> FALSE]

\* FF12TZAGame after __init__, before init(organizer): the flag, and the
\* plugin settings AUTO_STEAM_ID and STEAM_ID_64 the organizer keeps.
NoGame ==
    [phase |-> "new", suppress_setting_callback |-> FALSE,
     auto_steam_id |-> FALSE, steam_id_64 |-> "", last_logged |-> "",
     raised |-> FALSE, plugin_wrote |-> "", switched_off_after |-> ""]

\* The reader and its users before ArchiveReader(path) has run on archive a.
ReaderInit(a) ==
    /\ archive = a
    /\ pc = "new"
    /\ lm = [file_metadata |-> <<>>, file_path_data |-> <<>>,
             global_block_sizes |-> <<>>, i |-> 0]
    /\ entries = <<>>
    /\ file_handle = Closed
    /\ warning = ""
    /\ raised = ""
    /\ emitted = <<>>
    /\ uf = NoFrame
    /\ ret = NoRet
    /\ prev_failed = FALSE
    /\ last_op = "__init__"
    /\ open_ret = ""
    /\ live = 0
    /\ iolog = <<>>
    /\ batch = NoBatch
    /\ workers = [w \in Workers |-> NoWorker]
    /\ scopes = <<>>

Init ==
    /\ \E a \in Archives : ReaderInit(a)
    /\ tree = NoTree
    /\ widget = NoWidget
    /\ update = NoUpdate
    /\ game = NoGame

\* ---------------------------------------------- ArchiveReader.__init__
Idle ==
    <<uf, ret, prev_failed, last_op, open_ret, iolog, batch, workers, scopes,
      tree, widget, update, game>>

\* with self as file: __enter__ calls open()
LoadEnter ==
    /\ pc = "new"
    /\ \E ok \in BOOLEAN :
         /\ file_handle' = OpenCall(file_handle, ok).h
         /\ live' = live + OpenCall(file_handle, ok).acquired
    /\ pc' = "header"
    /\ UNCHANGED <<archive, lm, entries, warning, raised, emitted>>
    /\ UNCHANGED Idle

\* except Exception as e: qWarning(...): logged, not raised again
LoadFail(e, pos) ==
    /\ warning' = e
    /\ raised' = raised
    /\ pc' = "exit"
    /\ file_handle' = [file_handle EXCEPT !.pos = pos]
    /\ UNCHANGED <<lm, entries>>

\* the header, its magic, and the seek over the checksums
LoadHeader ==
    /\ pc = "header"
    /\ LET pos == file_handle.pos
           got == Avail(archive.file_len, pos, HEADER_SIZE)
       IN  IF ~file_handle.open
           THEN LoadFail("AttributeError", pos)
           ELSE IF got < HEADER_SIZE
           THEN LoadFail("EOFError", pos + got)
           ELSE IF archive.magic # MAGIC
           THEN LoadFail("ValueError", pos + got)
           ELSE /\ file_handle' =
                     [file_handle EXCEPT
                        !.pos = pos + got + CHECKSUM_SIZE * archive.file_count]
                /\ pc' = "records"
                /\ UNCHANGED <<lm, entries, warning, raised>>
    /\ UNCHANGED <<archive, emitted, live>>
    /\ UNCHANGED Idle

\* _read_file_metadata: count reads of one record each
LoadFileMetadata ==
    /\ pc = "records"
    /\ LET pos == file_handle.pos
           count == archive.file_count
           whole == Min(count, Max(0, archive.file_len - pos) \div RECORD_SIZE)
           at == pos + whole * RECORD_SIZE
       IN  IF whole < count
           THEN LoadFail("EOFError",
                         at + Avail(archive.file_len, at, RECORD_SIZE))
           ELSE /\ lm' = [lm EXCEPT !.file_metadata = archive.records]
                /\ file_handle' = [file_handle EXCEPT !.pos = at]
                /\ pc' = "paths"
                /\ UNCHANGED <<entries, warning, raised>>
    /\ UNCHANGED <<archive, emitted, live>>
    /\ UNCHANGED Idle

\* _read_file_path_data: the size field, then size - 4 bytes
LoadFilePathData ==
    /\ pc = "paths"
    /\ LET pos == file_handle.pos
           got == Avail(archive.file_len, pos, SIZE_FIELD)
           want == archive.path_size - SIZE_FIELD
           got2 == Avail(archive.file_len, pos + got, want)
       IN  IF got < SIZE_FIELD
           THEN LoadFail("EOFError", pos + got)
           ELSE IF got2 < want
           THEN LoadFail("EOFError", pos + got + got2)
           ELSE /\ lm' = [lm EXCEPT
                            !.file_path_data = PySlice(archive.path_data, 0, want)]
                /\ file_handle' = [file_handle EXCEPT !.pos = pos + got + got2]
                /\ pc' = "sizes"
                /\ UNCHANGED <<entries, warning, raised>>
    /\ UNCHANGED <<archive, emitted, live>>
    /\ UNCHANGED Idle

\* _get_block_count and _read_block_sizes
LoadBlockSizes ==
    /\ pc = "sizes"
    /\ LET pos == file_handle.pos
           count == GetBlockCount(lm.file_metadata)
           got == Avail(archive.file_len, pos, count * U16_SIZE)
       IN  IF got < count * U16_SIZE
           THEN LoadFail("ValueError", pos + got)
           ELSE /\ lm' = [lm EXCEPT
                            !.global_block_sizes = PySlice(archive.table, 0, count),
                            !.i = 1]
                /\ file_handle' = [file_handle EXCEPT !.pos = pos + got]
                /\ pc' = IF lm.file_metadata = <<>> THEN "exit" ELSE "entries"
                /\ UNCHANGED <<entries, warning, raised>>
    /\ UNCHANGED <<archive, emitted, live>>
    /\ UNCHANGED Idle

\* the entry the loop builds from one record
EntryOf(rec, global_block_sizes) ==
    Entry(rec.original_size, rec.data_offset,
          PySlice(global_block_sizes, rec.block_sizes_start_index,
                  rec.block_sizes_start_index + BlocksOf(rec.original_size)))

\* Mutant of Insert: a name that is already a key keeps its entry.
InsertFirstWins(ents, name, entry) ==
    [k \in (DOMAIN ents) \cup {name} |->
        IF k \in DOMAIN ents THEN ents[k] ELSE entry]

\* self._entries[name] = entry
Insert(ents, name, entry) ==
    [k \in (DOMAIN ents) \cup {name} |-> IF k = name THEN entry ELSE ents[k]]

\* Mutant of LoadEntry: the loop raises on a record whose slice of the
\* block-size table is short, after earlier records have been inserted.
LoadEntryStrict ==
    /\ pc = "entries"
    /\ LET rec == lm.file_metadata[lm.i]
           name == ReadNullStringLower(lm.file_path_data, rec.filepath_offset)
           entry == EntryOf(rec, lm.global_block_sizes)
       IN  IF Len(entry.block_sizes) # BlocksOf(rec.original_size)
           THEN LoadFail("ValueError", file_handle.pos)
           ELSE /\ entries' = Insert(entries, name, entry)
                /\ lm' = [lm EXCEPT !.i = @ + 1]
                /\ pc' = IF lm.i = Len(lm.file_metadata)
                         THEN "exit" ELSE "entries"
                /\ UNCHANGED <<file_handle, warning, raised>>
    /\ UNCHANGED <<archive, emitted, live>>
    /\ UNCHANGED Idle

\* one turn of the loop over file_metadata
LoadEntry ==
    /\ pc = "entries"
    /\ LET rec == lm.file_metadata[lm.i]
           name == ReadNullStringLower(lm.file_path_data, rec.filepath_offset)
       IN  entries' = Insert(entries, name, EntryOf(rec, lm.global_block_sizes))
    /\ lm' = [lm EXCEPT !.i = @ + 1]
    /\ pc' = IF lm.i = Len(lm.file_metadata) THEN "exit" ELSE "entries"
    /\ UNCHANGED <<archive, file_handle, warning, raised, emitted, live>>
    /\ UNCHANGED Idle

\* leaving the with block: __exit__ calls close(); __init__ returns
LoadExit ==
    /\ pc = "exit"
    /\ file_handle' = CloseCall(file_handle).h
    /\ live' = live - CloseCall(file_handle).released
    /\ pc' = "returned"
    /\ UNCHANGED <<archive, lm, entries, warning, raised, emitted>>
    /\ UNCHANGED Idle

\* Mutant of LoaderRun: the error signal follows the finished signal.
LoaderRunBoth ==
    /\ pc = "returned"
    /\ emitted' = emitted \o <<"finished", "error">>
    /\ pc' = "ready"
    /\ UNCHANGED <<archive, lm, entries, file_handle, warning, raised, live>>
    /\ UNCHANGED Idle

\* ArchiveLoader.run: the signal after ArchiveReader(...) has returned or raised
LoaderRun ==
    /\ pc = "returned"
    /\ emitted' = Append(emitted, IF raised = "" THEN "finished" ELSE "error")
    /\ pc' = "ready"
    /\ UNCHANGED <<archive, lm, entries, file_handle, warning, raised, live>>
    /\ UNCHANGED Idle

\* ------------------------------------------------- the reader in use
Loading ==
    <<archive, lm, warning, raised, emitted, batch, workers, scopes, tree,
      widget, update, game>>

\* The paths a caller asks for: the catalog's keys, a path no archive holds
\* and a path in its on-disk spelling.
QueryPaths == (DOMAIN entries) \cup { <<"n">>, <<"A">> }

BlockErrors == { "EOFError", "zlib.error" }

\* one line of iolog
Io(op, pos, req, got, mode, wrote) ==
    [op |-> op, pos |-> pos, req |-> req, got |-> got, mode |-> mode,
     wrote |-> wrote]

\* ArchiveReader.open() and __enter__
Open ==
    /\ pc = "ready"
    /\ ~uf.active
    /\ \E ok \in BOOLEAN :
         /\ file_handle' = OpenCall(file_handle, ok).h
         /\ live' = live + OpenCall(file_handle, ok).acquired
         /\ open_ret' = PyBool(OpenCall(file_handle, ok).result)
    /\ last_op' = "open"
    /\ UNCHANGED <<pc, entries, uf, ret, prev_failed, iolog>>
    /\ UNCHANGED Loading

\* Mutant of Close: closing the handle also drops the catalog.
CloseClearing ==
    /\ pc = "ready"
    /\ ~uf.active
    /\ file_handle' = CloseCall(file_handle).h
    /\ live' = live - CloseCall(file_handle).released
    /\ open_ret' = ""
    /\ last_op' = "close"
    /\ entries' = <<>>
    /\ UNCHANGED <<pc, uf, ret, prev_failed, iolog>>
    /\ UNCHANGED Loading

\* ArchiveReader.close() and __exit__
Close ==
    /\ pc = "ready"
    /\ ~uf.active
    /\ file_handle' = CloseCall(file_handle).h
    /\ live' = live - CloseCall(file_handle).released
    /\ open_ret' = ""
    /\ last_op' = "close"
    /\ UNCHANGED <<pc, entries, uf, ret, prev_failed, iolog>>
    /\ UNCHANGED Loading

\* Mutant of Precheck: the catalog is looked up before the handle is tested.
PrecheckLookupFirst(h, ents, file_path) ==
    IF file_path \notin DOMAIN ents THEN "FileNotFoundError"
    ELSE IF ~h.open THEN "ValueError"
    ELSE ""

\* the two checks unpack_file starts with: the exception raised, "" for none
Precheck(h, ents, file_path) ==
    IF ~h.open THEN "ValueError"
    ELSE IF file_path \notin DOMAIN ents THEN "FileNotFoundError"
    ELSE ""

\* Mutant of CallIo: the handle is rewound before the catalog is looked up.
CallIoRewind(h, ents, file_path) ==
    IF ~h.open THEN [h |-> h, log |-> <<>>]
    ELSE IF file_path \notin DOMAIN ents
    THEN [h |-> [h EXCEPT !.pos = 0],
          log |-> <<Io("seek", 0, 0, 0, "none", 0)>>]
    ELSE [h |-> [h EXCEPT !.pos = ents[file_path].data_offset],
          log |-> <<Io("seek", ents[file_path].data_offset, 0, 0, "none", 0)>>]

\* Mutant of CallIo: the loop starts where the handle happens to stand.
CallIoNoSeek(h, ents, file_path) ==
    IF Precheck(h, ents, file_path) = ""
    THEN [h |-> h, log |-> <<Io("seek", h.pos, 0, 0, "none", 0)>>]
    ELSE [h |-> h, log |-> <<>>]

\* what unpack_file does to the handle before its loop: the seek to the
\* entry's data_offset, once both checks have passed
CallIo(h, ents, file_path) ==
    IF Precheck(h, ents, file_path) = ""
    THEN [h |-> [h EXCEPT !.pos = ents[file_path].data_offset],
          log |-> <<Io("seek", ents[file_path].data_offset, 0, 0, "none", 0)>>]
    ELSE [h |-> h, log |-> <<>>]

\* The frame of unpack_file(file_path) when its loop starts:
\* data = bytearray(entry.original_size), buffer_pos = 0
FrameOf(ents, file_path) ==
    [active |-> TRUE, path |-> file_path, entry |-> ents[file_path],
     data |-> Zeros(ents[file_path].original_size),
     buffer_pos |-> 0, block_count |-> 0]

\* How the call stands when its loop starts: raised by a check, or running.
CallRet(file_path, pre) ==
    [path |-> file_path, result |-> IF pre # "" THEN pre ELSE "running",
     data |-> <<>>, buffer_pos |-> 0]

\* reader.unpack_file(file_path) up to its loop
DoCall(file_path) ==
    LET pre == Precheck(file_handle, entries, file_path)
        io == CallIo(file_handle, entries, file_path)
    IN  /\ file_handle' = io.h
        /\ iolog' = io.log
        /\ uf' = IF pre # "" THEN NoFrame ELSE FrameOf(entries, file_path)
        /\ ret' = CallRet(file_path, pre)
        /\ prev_failed' =
               (last_op = "unpack_file" /\ ret.result \in BlockErrors)
        /\ last_op' = "unpack_file"
        /\ open_ret' = ""

\* unpack_file up to its loop
UnpackCall ==
    /\ pc = "ready"
    /\ ~uf.active
    /\ \E file_path \in QueryPaths : DoCall(file_path)
    /\ UNCHANGED <<pc, entries, live>>
    /\ UNCHANGED Loading

\* one turn of the loop over entry.block_sizes, on frame f and handle h
BlockStep(a, f, h) ==
    LET block_size == ReadLen(f.entry.block_sizes[f.block_count + 1])
        got == Avail(a.file_len, h.pos, block_size)
        is_last_block == (f.block_count = Len(f.entry.block_sizes) - 1)
        remaining_size == f.entry.original_size % MAX_BLOCK_SIZE
        raw == IsRaw(block_size, is_last_block, remaining_size)
        decompressed_size == Decompress(a, h.pos, block_size)
        err == IF got < block_size THEN "EOFError"
               ELSE IF ~raw /\ decompressed_size < 0 THEN "zlib.error"
               ELSE ""
        n == IF raw THEN block_size ELSE decompressed_size
        bytes == IF raw THEN FileBytes(h.pos, n) ELSE Inflated(h.pos, n)
    IN  [ err |-> err,
          h |-> [h EXCEPT !.pos = @ + got],
          f |-> IF err # "" THEN f
                ELSE [f EXCEPT
                        !.data = SliceAssign(@, f.buffer_pos, f.buffer_pos + n,
                                             bytes),
                        !.buffer_pos = @ + n,
                        !.block_count = @ + 1],
          log |-> Io("read", h.pos, block_size, got,
                     IF got < block_size THEN "short"
                     ELSE IF raw THEN "raw"
                     ELSE IF err # "" THEN "failed" ELSE "inflate",
                     IF err # "" THEN 0 ELSE n) ]

\* Mutant of OnBlockError: the failed call closes the handle behind it.
OnBlockErrorClose(f, h, err) ==
    [ uf |-> NoFrame,
      ret |-> [path |-> f.path, result |-> err, data |-> <<>>,
               buffer_pos |-> 0],
      h |-> Closed ]

\* a raise inside the loop: the call ends, nothing is returned, the frame is
\* gone and the handle is left as the failed read left it
OnBlockError(f, h, err) ==
    [ uf |-> NoFrame,
      ret |-> [path |-> f.path, result |-> err, data |-> <<>>,
               buffer_pos |-> 0],
      h |-> h ]

UnpackBlock ==
    /\ pc = "ready"
    /\ uf.active
    /\ uf.block_count < Len(uf.entry.block_sizes)
    /\ LET st == BlockStep(archive, uf, file_handle)
           out == OnBlockError(uf, st.h, st.err)
       IN  /\ iolog' = Append(iolog, st.log)
           /\ IF st.err # ""
              THEN /\ uf' = out.uf
                   /\ ret' = out.ret
                   /\ file_handle' = out.h
              ELSE /\ uf' = st.f
                   /\ ret' = ret
                   /\ file_handle' = st.h
    /\ UNCHANGED <<pc, entries, prev_failed, last_op, open_ret, live>>
    /\ UNCHANGED Loading

\* return data
UnpackReturn ==
    /\ pc = "ready"
    /\ uf.active
    /\ uf.block_count = Len(uf.entry.block_sizes)
    /\ ret' = [path |-> uf.path, result |-> "ok", data |-> uf.data,
                buffer_pos |-> uf.buffer_pos]
    /\ uf' = NoFrame
    /\ UNCHANGED <<pc, entries, file_handle, prev_failed, last_op, open_ret,
                   live, iolog>>
    /\ UNCHANGED Loading

Next ==
    \/ LoadEnter
    \/ LoadHeader
    \/ LoadFileMetadata
    \/ LoadFilePathData
    \/ LoadBlockSizes
    \/ LoadEntry
    \/ LoadExit
    \/ LoaderRun
    \/ Open
    \/ Close
    \/ UnpackCall
    \/ UnpackBlock
    \/ UnpackReturn

Spec == Init /\ [][Next]_vars

\* ------------------------------------------------------------- the claims
Ceil(n, d) == (n + d - 1) \div d

\* The current or last unpack_file call got past its checks.
HasEntry == iolog # <<>> /\ ret.path \in DOMAIN entries
\* The entry that call works on.
CallEntry == entries[ret.path]
\* The reads of that call, one per block, in order (iolog[1] is the seek).
BlockReads == SubSeq(iolog, 2, Len(iolog))

\* The on-disk length and the file offset of block k (1-based) of entry e, and
\* the bytes the format says it decodes to.
DiskLen(e, k) ==
    IF e.block_sizes[k] = 0 THEN MAX_BLOCK_SIZE ELSE e.block_sizes[k]
DiskOff(e, k) == e.data_offset + SumSeq([j \in 1..(k - 1) |-> DiskLen(e, j)])
StoredRaw(e, k) ==
    \/ DiskLen(e, k) = MAX_BLOCK_SIZE
    \/ (k = Len(e.block_sizes)
        /\ DiskLen(e, k) = e.original_size % MAX_BLOCK_SIZE)
DecodedBlock(a, e, k) ==
    IF StoredRaw(e, k)
    THEN FileBytes(DiskOff(e, k), DiskLen(e, k))
    ELSE Inflated(DiskOff(e, k), Decompress(a, DiskOff(e, k), DiskLen(e, k)))
DecodedBlocks(a, e) ==
    Flatten([k \in 1..Len(e.block_sizes) |-> DecodedBlock(a, e, k)])

\* C1: a successful unpack_file returns the concatenation, in block-table
\* order, of the decoded blocks of the entry (a raw block decodes to its
\* on-disk bytes, a compressed block to its inflated bytes).
C1_Claim ==
    ret.result = "ok" => ret.data = DecodedBlocks(archive, CallEntry)

\* What unpack_file returns instead: the decoded blocks, followed by what is
\* left of the zero-filled buffer when they are shorter than original_size.
C1_Padded ==
    ret.result = "ok" =>
        /\ ret.buffer_pos = BLen(DecodedBlocks(archive, CallEntry))
        /\ ret.data =
             DecodedBlocks(archive, CallEntry)
             \o Zeros(Max(0, CallEntry.original_size - ret.buffer_pos))

\* C2: a block that unpack_file has read in full is copied raw exactly when
\* its on-disk length is 65536, or it is the last block of the entry and its
\* on-disk length is original_size mod 65536; every other block is inflated.
C2_Theorem ==
    HasEntry =>
        \A k \in 1..Len(BlockReads) :
            LET r == BlockReads[k]
            IN  r.got = r.req =>
                  /\ (r.mode = "raw") <=> StoredRaw(CallEntry, k)
                  /\ r.mode = "raw" => r.wrote = DiskLen(CallEntry, k)
                  /\ r.mode # "raw" => r.mode \in {"inflate", "failed"}

\* A block that is not the last one, whose on-disk length equals
\* original_size mod 65536, has been inflated.
C2_Witness ==
    /\ HasEntry
    /\ \E k \in 1..Len(BlockReads) :
         /\ k < Len(CallEntry.block_sizes)
         /\ DiskLen(CallEntry, k) = CallEntry.original_size % MAX_BLOCK_SIZE
         /\ BlockReads[k].mode = "inflate"

\* C3: for every block unpack_file asks for exactly 65536 bytes at the
\* current file position when the declared size is 0 and for exactly the
\* declared number of bytes otherwise, a block is only decoded when all of
\* them came, and a declared size of 0 yields a raw block of 65536 bytes.
C3_Theorem ==
    HasEntry =>
        \A k \in 1..Len(BlockReads) :
            LET r == BlockReads[k]
                declared == CallEntry.block_sizes[k]
            IN  /\ r.op = "read"
                /\ r.req = (IF declared = 0 THEN MAX_BLOCK_SIZE ELSE declared)
                /\ r.pos = CallEntry.data_offset
                           + SumSeq([j \in 1..(k - 1) |-> BlockReads[j].got])
                /\ (r.mode = "short") <=> (r.got < r.req)
                /\ r.mode # "short" => r.got = r.req
                /\ (declared = 0 /\ r.got = r.req) =>
                        (r.mode = "raw" /\ r.wrote = MAX_BLOCK_SIZE)

\* A block declared with size 0 has been read and copied raw.
C3_Witness ==
    /\ HasEntry
    /\ \E k \in 1..Len(BlockReads) :
         /\ CallEntry.block_sizes[k] = 0
         /\ BlockReads[k].got = MAX_BLOCK_SIZE
         /\ BlockReads[k].mode = "raw"

\* C4: whenever unpack_file returns data, the write cursor equals the
\* entry's original_size.
C4_Claim ==
    ret.result = "ok" => ret.buffer_pos = CallEntry.original_size

\* C5: unpack_file with an open handle and a path that is no key of the
\* catalog raises FileNotFoundError and neither seeks nor reads: the handle,
\* its position and the catalog are as before.
C5_Theorem ==
    [][ ( /\ last_op' = "unpack_file"
          /\ ~uf.active
          /\ file_handle.open
          /\ ret'.path \notin DOMAIN entries )
        => ( /\ ret'.result = "FileNotFoundError"
             /\ ~uf'.active
             /\ iolog' = <<>>
             /\ file_handle' = file_handle
             /\ entries' = entries ) ]_vars

\* An unknown path has been asked for on a handle an earlier call had moved.
C5_Witness ==
    /\ last_op = "unpack_file"
    /\ ret.result = "FileNotFoundError"
    /\ file_handle.open
    /\ file_handle.pos > 0

\* C6: unpack_file while the handle is not open raises the handle-not-open
\* error (ValueError) for every path, touches no file, and leaves the catalog
\* and the handle as they were.
C6_Theorem ==
    [][ ( /\ last_op' = "unpack_file"
          /\ ~uf.active
          /\ ~file_handle.open )
        => ( /\ ret'.result = "ValueError"
             /\ ~uf'.active
             /\ iolog' = <<>>
             /\ file_handle' = file_handle
             /\ entries' = entries ) ]_vars

\* Both a key of the catalog and an unknown path have been refused on a
\* closed handle: here the unknown one, with a catalog that has entries.
C6_Witness ==
    /\ last_op = "unpack_file"
    /\ ret.result = "ValueError"
    /\ ret.path \notin DOMAIN entries
    /\ DOMAIN entries # {}
    /\ ~file_handle.open

\* C7: a block that comes short or does not inflate ends that call only: it
\* is the last I/O of the call, the call returns no data, and the step that
\* fails leaves the handle open and the catalog unchanged.
C7_Theorem ==
    /\ [](\A k \in 1..Len(iolog) :
            iolog[k].mode \in {"short", "failed"} =>
                /\ k = Len(iolog)
                /\ ~uf.active
                /\ ret.result \in BlockErrors
                /\ ret.data = <<>>)
    /\ [][ (uf.active /\ ret'.result \in BlockErrors)
           => ( /\ ~uf'.active
                /\ iolog'[Len(iolog')].mode \in {"short", "failed"}
                /\ file_handle'.open
                /\ entries' = entries ) ]_vars

\* A call failed on a block and the very next operation, a call for another
\* entry on the same handle, returned data.
C7_Witness ==
    /\ prev_failed
    /\ last_op = "unpack_file"
    /\ ret.result = "ok"

\* C8: when metadata loading hits a magic mismatch or a short read, the
\* caller is handed an error and no reader.
C8_Claim ==
    (pc = "ready" /\ warning \in {"EOFError", "ValueError"})
        => emitted = <<"error">>

\* The lowercased path of the i-th file record of archive a.
RecordName(a, i) ==
    ReadNullStringLower(a.path_data, a.records[i].filepath_offset)

\* C9: once the constructor has returned, the catalog is empty (always so
\* when loading failed) or has an entry for every file record.
C9_Theorem ==
    pc \in {"returned", "ready"} =>
        /\ warning # "" => DOMAIN entries = {}
        /\ \/ DOMAIN entries = {}
           \/ \A i \in 1..archive.file_count :
                RecordName(archive, i) \in DOMAIN entries

\* An archive of two records has been loaded into a catalog of two entries.
C9_Witness ==
    /\ pc = "ready"
    /\ archive.file_count = 2
    /\ Cardinality(DOMAIN entries) = 2

\* C10: every entry of the catalog has exactly ceil(original_size / 65536)
\* block sizes.
C10_Claim ==
    \A name \in DOMAIN entries :
        Len(entries[name].block_sizes)
            = Ceil(entries[name].original_size, MAX_BLOCK_SIZE)

\* The number of blocks the file records of archive a call for.
BlocksCalledFor(a) ==
    SumSeq([i \in 1..a.file_count |->
              Ceil(a.records[i].original_size, MAX_BLOCK_SIZE)])

\* The constructor has returned and loading logged no failure.
Loaded == pc \in {"returned", "ready"} /\ warning = ""

\* C11: for an archive that loads successfully, the number of u16 values
\* parsed into the global block-size table equals the sum over the file
\* records of ceil(original_size / 65536), and the table of the archive has
\* that many values too: an archive whose table does not match fails to load.
C11_Claim ==
    Loaded =>
        /\ Len(lm.global_block_sizes) = BlocksCalledFor(archive)
        /\ Len(archive.table) = BlocksCalledFor(archive)

\* The uppercase letters of the alphabet the archives use, and their
\* lowercase forms.
Uppercase == {"A", "D"}
Lowered(c) == IF c = "A" THEN "a" ELSE IF c = "D" THEN "d" ELSE c

\* The path of record i of archive a as the format defines it: the bytes of
\* the path blob from the record's filepath_offset up to the next NUL or the
\* end of the blob, lowercased.
PathEnd(a, i) ==
    LET off == a.records[i].filepath_offset
        nuls == { j \in (off + 1)..Len(a.path_data) : a.path_data[j] = NUL }
    IN  IF nuls = {} THEN Len(a.path_data)
        ELSE (CHOOSE j \in nuls : \A k \in nuls : j <= k) - 1
ResolvedPath(a, i) ==
    LET off == a.records[i].filepath_offset
    IN  [j \in 1..(PathEnd(a, i) - off) |-> Lowered(a.path_data[off + j])]

\* C12: after a successful load the set of catalog keys is the set of
\* lowercased paths resolved from the file records, the catalog holds at most
\* file_count entries, and no key contains an uppercase letter.
C12_Theorem ==
    Loaded =>
        /\ DOMAIN entries
             = { ResolvedPath(archive, i) : i \in 1..archive.file_count }
        /\ Cardinality(DOMAIN entries) <= archive.file_count
        /\ \A name \in DOMAIN entries :
             \A j \in 1..Len(name) : name[j] \notin Uppercase

\* Two records with uppercase letters in their on-disk paths, the last path
\* ended by the end of the blob, have been loaded into two entries.
C12_Witness ==
    /\ Loaded
    /\ pc = "ready"
    /\ archive.file_count = 2
    /\ archive.path_data # <<>>
    /\ archive.path_data[Len(archive.path_data)] # NUL
    /\ \A i \in 1..2 :
         \E j \in 1..Len(archive.path_data) :
            /\ j > archive.records[i].filepath_offset
            /\ j <= PathEnd(archive, i)
            /\ archive.path_data[j] \in Uppercase
    /\ Cardinality(DOMAIN entries) = 2

\* The entry the format defines for record i of archive a: its sizes and
\* offset, and its run of the block-size table.
RecordEntry(a, i) ==
    LET rec == a.records[i]
        first == rec.block_sizes_start_index + 1
        last == Min(rec.block_sizes_start_index
                      + Ceil(rec.original_size, MAX_BLOCK_SIZE),
                    Len(a.table))
    IN  [original_size |-> rec.original_size,
         data_offset |-> rec.data_offset,
         block_sizes |-> SubSeq(a.table, first, last)]

\* The records of archive a that resolve to the path name.
RecordsNamed(a, name) ==
    { i \in 1..a.file_count : ResolvedPath(a, i) = name }

\* The greatest element of a nonempty set of numbers.
Greatest(S) == CHOOSE i \in S : \A j \in S : j <= i

\* C13: when several file records resolve to the same lowercased path, the
\* catalog maps that path to the entry built from the record that comes last
\* in the record table; a lookup of the path never yields an earlier record.
C13_Theorem ==
    Loaded =>
        \A name \in DOMAIN entries :
            /\ RecordsNamed(archive, name) # {}
            /\ entries[name]
                 = RecordEntry(archive, Greatest(RecordsNamed(archive, name)))

\* Two records of different sizes resolve to one path, and the catalog holds
\* the second.
C13_Witness ==
    /\ Loaded
    /\ pc = "ready"
    /\ archive.file_count = 2
    /\ ResolvedPath(archive, 1) = ResolvedPath(archive, 2)
    /\ archive.records[1].original_size # archive.records[2].original_size
    /\ DOMAIN entries = { ResolvedPath(archive, 2) }
    /\ entries[ResolvedPath(archive, 2)].original_size
         = archive.records[2].original_size

\* C14: once the constructor has returned, no step of the reader (open,
\* close, entering or leaving a with-scope, unpack_file succeeding or
\* failing) adds, removes or changes a catalog entry.
C14_Theorem ==
    [][ (pc \in {"returned", "ready"}) => (entries' = entries) ]_vars

\* A reader with a catalog of two entries has been opened, has unpacked a
\* file and has been closed, and the catalog is the one loading built.
C14_Witness ==
    /\ pc = "ready"
    /\ last_op = "close"
    /\ ret.result = "ok"
    /\ Cardinality(DOMAIN entries) = 2
    /\ \A name \in DOMAIN entries :
         entries[name]
           = RecordEntry(archive, Greatest(RecordsNamed(archive, name)))

\* What a call of open() or close() on the loaded reader does to the handle.
OpenCloseStep ==
    /\ (last_op' = "open" /\ file_handle.open) =>
          /\ file_handle' = file_handle
          /\ live' = live
          /\ open_ret' = "True"
    /\ (last_op' = "close" /\ ~file_handle.open) =>
          /\ file_handle' = file_handle
          /\ live' = live
    /\ file_handle'.open =
          CASE last_op' = "open" -> (open_ret' = "True")
            [] last_op' = "close" -> FALSE
            [] OTHER -> file_handle.open

\* C15: open on an open reader returns True and keeps the same handle
\* without acquiring a second one; close on a closed reader changes nothing;
\* the reader never holds more than one handle, and it is open exactly when
\* the last call that was not a no-op was a successful open.
C15_Theorem ==
    /\ [](live = IF file_handle.open THEN 1 ELSE 0)
    /\ [][ (pc = "ready") => OpenCloseStep ]_vars

\* open() has returned True on a reader whose handle was open already and
\* had been read from, and one handle is held.
C15_Witness ==
    /\ pc = "ready"
    /\ last_op = "open"
    /\ open_ret = "True"
    /\ file_handle.open
    /\ file_handle.pos > 0
    /\ live = 1

\* The bytes of the archive file that hold the blocks of entry e: from
\* data_offset up to, not including, DiskEnd(e).
DiskEnd(e) == DiskOff(e, Len(e.block_sizes) + 1)

\* C18: a successful unpack_file first seeks to the entry's data_offset and
\* then reads the entry's blocks contiguously in table order: block k is read
\* from data_offset plus the on-disk lengths of the blocks before it, each
\* block is read once and in full, and no byte outside the entry's range is
\* read.
C18_Theorem ==
    ret.result = "ok" =>
        /\ ret.path \in DOMAIN entries
        /\ Len(iolog) = 1 + Len(CallEntry.block_sizes)
        /\ iolog[1].op = "seek"
        /\ iolog[1].pos = CallEntry.data_offset
        /\ \A k \in 1..Len(CallEntry.block_sizes) :
             /\ iolog[k + 1].op = "read"
             /\ iolog[k + 1].pos = DiskOff(CallEntry, k)
             /\ iolog[k + 1].req = DiskLen(CallEntry, k)
             /\ iolog[k + 1].got = DiskLen(CallEntry, k)
             /\ iolog[k + 1].pos >= CallEntry.data_offset
             /\ iolog[k + 1].pos + iolog[k + 1].got <= DiskEnd(CallEntry)

\* A file of two blocks has been unpacked, the second block read after the
\* first, and the handle stands at the end of the second.
C18_Witness ==
    /\ ret.result = "ok"
    /\ last_op = "unpack_file"
    /\ Len(CallEntry.block_sizes) = 2
    /\ Len(iolog) = 3
    /\ iolog[3].pos > iolog[2].pos
    /\ file_handle.pos = DiskEnd(CallEntry)

\* C20: a run of the background loader hands back exactly one outcome: once
\* run() has ended, one signal has been emitted, finished or error, and
\* before that none.
C20_Theorem ==
    /\ pc = "ready" =>
         /\ Len(emitted) = 1
         /\ emitted[1] \in {"finished", "error"}
    /\ pc # "ready" => emitted = <<>>

\* run() has ended for an archive of two files and has emitted one signal.
C20_Witness ==
    /\ pc = "ready"
    /\ last_op = "__init__"
    /\ archive.file_count = 2
    /\ Len(emitted) = 1

\* ------------------------------------ ArchiveView._export_selection
\* What an export step leaves alone: the loaded reader and the other threads.
ReaderLoaded ==
    <<archive, pc, lm, entries, warning, raised, emitted, workers, scopes,
      tree, widget, update, game>>

\* files_to_export: the file nodes of the selection, one per catalog key
Selections(ents) ==
    { s \in UNION { [1..n -> DOMAIN ents] :
                      n \in 1..Cardinality(DOMAIN ents) } :
        \A i, j \in DOMAIN s : i # j => s[i] # s[j] }

\* Mutant of Failed: a failure ends the loop.
FailedStop(b) ==
    [b EXCEPT !.state = "leaving", !.left = "end",
              !.failed_files = Append(@, b.files[b.i + 1])]

\* failed_files.append(...), and the loop goes on
Failed(b) ==
    [b EXCEPT !.state = "loop", !.i = @ + 1,
              !.failed_files = Append(@, b.files[b.i + 1])]

\* exported_count += 1, and the loop goes on
Exported(b) ==
    [b EXCEPT !.state = "loop", !.i = @ + 1, !.exported_count = @ + 1]

\* try: the file of this turn of the loop is attempted
Attempt(b) == [b EXCEPT !.attempts = Append(@, b.files[b.i + 1])]

\* Mutant of CancelObservable: the cancel button is looked at while a file
\* is being extracted, too.
CancelObservableAnywhere(b) == b.state \in {"loop", "called"}

\* progress.wasCanceled() is called at the start of a turn of the loop
CancelObservable(b) == b.state = "loop" /\ b.i < Len(b.files)

\* Mutant of CallReturned: the loop goes on while unpack_file is running.
CallReturnedOrNot == TRUE

\* data = reader.unpack_file(relative_path): the statement after the call
\* runs when the call has returned or raised
CallReturned == ~uf.active

\* Mutant of ScopeExit: the handle is closed only when the block ends
\* without an exception.
ScopeExitOnSuccess(h, left) ==
    IF left = "raise" THEN [h |-> h, released |-> 0] ELSE CloseCall(h)

\* __exit__(exc_type, exc_val, exc_tb): close(), however the block was left
ScopeExit(h, left) == CloseCall(h)

\* the progress dialog, then with self._model._reader as reader: __enter__
\* calls open(), whose result is not looked at
ExportBegin ==
    /\ pc = "ready"
    /\ batch.state = "idle"
    /\ \E files \in Selections(entries), ok \in BOOLEAN :
         /\ batch' = [NoBatch EXCEPT !.state = "loop", !.files = files]
         /\ file_handle' = OpenCall(file_handle, ok).h
         /\ live' = live + OpenCall(file_handle, ok).acquired
         /\ open_ret' = PyBool(OpenCall(file_handle, ok).result)
    /\ last_op' = "open"
    /\ UNCHANGED <<uf, ret, prev_failed, iolog>>
    /\ UNCHANGED ReaderLoaded

\* How the with block is left: "break" on cancel, "raise" for an exception
\* of the progress dialog's calls, which no try encloses, "end" after the
\* last file.
Leave(left) ==
    /\ batch' = [batch EXCEPT !.state = "leaving", !.left = left]
    /\ UNCHANGED <<file_handle, live, uf, ret, prev_failed, last_op, open_ret,
                   iolog>>
    /\ UNCHANGED ReaderLoaded

\* if progress.wasCanceled(): break
ExportCancel ==
    /\ CancelObservable(batch)
    /\ Leave("break")

\* setLabelText, setValue or processEvents raises
ExportRaise ==
    /\ batch.state = "loop"
    /\ batch.i < Len(batch.files)
    /\ Leave("raise")

\* the for loop is exhausted
ExportLoopEnd ==
    /\ batch.state = "loop"
    /\ batch.i = Len(batch.files)
    /\ Leave("end")

\* the try block up to the call of unpack_file: mkdir, which may fail, then
\* the call
ExportCall ==
    /\ batch.state = "loop"
    /\ batch.i < Len(batch.files)
    /\ \E mkdir_ok \in BOOLEAN :
         IF mkdir_ok
         THEN /\ DoCall(batch.files[batch.i + 1])
              /\ batch' = [Attempt(batch) EXCEPT !.state = "called"]
         ELSE /\ batch' = Failed(Attempt(batch))
              /\ UNCHANGED <<file_handle, uf, ret, prev_failed, last_op,
                             open_ret, iolog>>
    /\ UNCHANGED live
    /\ UNCHANGED ReaderLoaded

\* the rest of the try block: the data is written, which may fail, or the
\* exception of the call is caught
ExportWrite ==
    /\ batch.state = "called"
    /\ CallReturned
    /\ \E wrote \in BOOLEAN :
         batch' = IF ret.result = "ok" /\ wrote
                  THEN Exported(batch) ELSE Failed(batch)
    /\ UNCHANGED <<file_handle, live, uf, ret, prev_failed, last_op, open_ret,
                   iolog>>
    /\ UNCHANGED ReaderLoaded

\* the with block is left: __exit__
ExportExit ==
    /\ batch.state = "leaving"
    /\ file_handle' = ScopeExit(file_handle, batch.left).h
    /\ live' = live - ScopeExit(file_handle, batch.left).released
    /\ batch' = [batch EXCEPT !.state = "closed"]
    /\ last_op' = "close"
    /\ open_ret' = ""
    /\ UNCHANGED <<uf, ret, prev_failed, iolog>>
    /\ UNCHANGED ReaderLoaded

\* after the with block: progress.close() and the message box; the number
\* of exported files the message states
ExportReport ==
    /\ batch.state = "closed"
    /\ batch.left # "raise"
    /\ LET total_count == Len(batch.files)
           fail_count == Len(batch.failed_files)
       IN  batch' =
             IF batch.failed_files # <<>>
             THEN [batch EXCEPT !.state = "reported", !.message = "warning",
                                !.reported = total_count - fail_count]
             ELSE [batch EXCEPT !.state = "reported",
                                !.message = "information",
                                !.reported = batch.exported_count]
    /\ UNCHANGED <<file_handle, live, uf, ret, prev_failed, last_op, open_ret,
                   iolog>>
    /\ UNCHANGED ReaderLoaded

\* The reader is loaded in the background and one selection is exported.
NextExport ==
    \/ LoadEnter
    \/ LoadHeader
    \/ LoadFileMetadata
    \/ LoadFilePathData
    \/ LoadBlockSizes
    \/ LoadEntry
    \/ LoadExit
    \/ LoaderRun
    \/ ExportBegin
    \/ ExportCancel
    \/ ExportRaise
    \/ ExportLoopEnd
    \/ ExportCall
    \/ UnpackBlock
    \/ UnpackReturn
    \/ ExportWrite
    \/ ExportExit
    \/ ExportReport

SpecExport == Init /\ [][NextExport]_vars

\* A call of unpack_file is between its seek and its return.
InCall == uf.active

\* The only thing that happens to the handle while a call is running: the
\* call reads its next block from where its last read ended.
OwnRead ==
    /\ Len(iolog') = Len(iolog) + 1
    /\ SubSeq(iolog', 1, Len(iolog)) = iolog
    /\ iolog'[Len(iolog')].op = "read"
    /\ iolog'[Len(iolog')].pos = file_handle.pos
    /\ iolog'[Len(iolog')].pos = DiskOff(uf.entry, uf.block_count + 1)
    /\ uf'.active => (uf'.path = uf.path /\ uf'.block_count = uf.block_count + 1)

C19_Theorem ==
    /\ (pc \in {"returned", "ready"} /\ batch.state = "idle") =>
          /\ ~file_handle.open
          /\ live = 0
          /\ \A p \in QueryPaths :
                Precheck(file_handle, entries, p) = "ValueError"
    /\ batch.state = "closed" =>
          /\ batch.left \in {"end", "break", "raise"}
          /\ ~file_handle.open
          /\ live = 0

\* A batch that had exported a file was left through an exception, and its
\* with-scope has ended.
C19_Witness ==
    /\ batch.state = "closed"
    /\ batch.left = "raise"
    /\ batch.exported_count = 1
    /\ batch.i < Len(batch.files)

\* ------------------------- unpack_file from two threads, a reader each
\* Every thread has constructed a reader of its own on the archive file;
\* loading is a function of the file, so each reader's catalog is entries.

\* Mutant of HandleOf: the threads share the handle of the first reader.
HandleOfShared(ws, w) == ws[1].h

\* self._file_handle of the reader of thread w
HandleOf(ws, w) == ws[w].h

\* The other thread.
Other(w) == 3 - w

\* reader.open() in thread w
WOpen(w) ==
    /\ pc = "ready"
    /\ workers[w].ret = NoRet
    /\ \E ok \in BOOLEAN :
         workers' = [workers EXCEPT
                       ![w].h = OpenCall(HandleOf(workers, w), ok).h]
    /\ UNCHANGED <<archive, pc, lm, entries, file_handle, warning, raised,
                   emitted, uf, ret, prev_failed, last_op, open_ret, live,
                   iolog, batch, scopes, tree, widget, update, game>>

\* reader.unpack_file(file_path) up to its loop, in thread w, for a path the
\* other thread has not asked for
WCall(w) ==
    /\ pc = "ready"
    /\ workers[w].ret = NoRet
    /\ HandleOf(workers, w).open
    /\ \E file_path \in (DOMAIN entries) \ {workers[Other(w)].ret.path} :
         LET h == HandleOf(workers, w)
             pre == Precheck(h, entries, file_path)
             meets == workers[Other(w)].uf.active
         IN  workers' =
               [workers EXCEPT
                  ![w].h = CallIo(h, entries, file_path).h,
                  ![w].uf = IF pre # "" THEN NoFrame
                            ELSE FrameOf(entries, file_path),
                  ![w].ret = CallRet(file_path, pre),
                  ![w].overlap = meets,
                  ![Other(w)].overlap = @ \/ meets]
    /\ UNCHANGED <<archive, pc, lm, entries, file_handle, warning, raised,
                   emitted, uf, ret, prev_failed, last_op, open_ret, live,
                   iolog, batch, scopes, tree, widget, update, game>>

\* one turn of the loop of unpack_file in thread w
WBlock(w) ==
    /\ workers[w].uf.active
    /\ workers[w].uf.block_count < Len(workers[w].uf.entry.block_sizes)
    /\ LET st == BlockStep(archive, workers[w].uf, HandleOf(workers, w))
           out == OnBlockError(workers[w].uf, st.h, st.err)
       IN  workers' =
             [workers EXCEPT
                ![w].h = IF st.err # "" THEN out.h ELSE st.h,
                ![w].uf = IF st.err # "" THEN out.uf ELSE st.f,
                ![w].ret = IF st.err # "" THEN out.ret ELSE @]
    /\ UNCHANGED <<archive, pc, lm, entries, file_handle, warning, raised,
                   emitted, uf, ret, prev_failed, last_op, open_ret, live,
                   iolog, batch, scopes, tree, widget, update, game>>

\* return data in thread w
WReturn(w) ==
    /\ workers[w].uf.active
    /\ workers[w].uf.block_count = Len(workers[w].uf.entry.block_sizes)
    /\ workers' =
         [workers EXCEPT
            ![w].ret = [path |-> workers[w].uf.path, result |-> "ok",
                        data |-> workers[w].uf.data,
                        buffer_pos |-> workers[w].uf.buffer_pos],
            ![w].uf = NoFrame]
    /\ UNCHANGED <<archive, pc, lm, entries, file_handle, warning, raised,
                   emitted, uf, ret, prev_failed, last_op, open_ret, live,
                   iolog, batch, scopes, tree, widget, update, game>>

\* The archive is loaded and each thread makes one call.
NextConc ==
    \/ LoadEnter
    \/ LoadHeader
    \/ LoadFileMetadata
    \/ LoadFilePathData
    \/ LoadBlockSizes
    \/ LoadEntry
    \/ LoadExit
    \/ LoaderRun
    \/ \E w \in Workers : WOpen(w)
    \/ \E w \in Workers : WCall(w)
    \/ \E w \in Workers : WBlock(w)
    \/ \E w \in Workers : WReturn(w)

SpecConc == Init /\ [][NextConc]_vars

\* What unpack_file(file_path) returns or raises when it runs alone, from its
\* seek on a handle nobody else uses to its end.
RECURSIVE SeqLoop(_, _, _)
SeqLoop(a, f, h) ==
    IF f.block_count = Len(f.entry.block_sizes)
    THEN [path |-> f.path, result |-> "ok", data |-> f.data,
          buffer_pos |-> f.buffer_pos]
    ELSE LET st == BlockStep(a, f, h)
         IN  IF st.err # ""
             THEN [path |-> f.path, result |-> st.err, data |-> <<>>,
                   buffer_pos |-> 0]
             ELSE SeqLoop(a, st.f, st.h)
Sequential(a, ents, file_path) ==
    SeqLoop(a, FrameOf(ents, file_path),
            [Fresh EXCEPT !.pos = ents[file_path].data_offset])

\* The call of thread w has ended.
Ended(w) == workers[w].ret.result \notin {"", "running"}

\* C17: unpack_file calls on distinct paths, made concurrently by threads
\* that each use a reader and an open handle of their own on the same
\* archive file, end as the same calls made one after the other end, with
\* the same bytes, under every interleaving of their seek and read steps.
C17_Theorem ==
    \A w \in Workers :
        Ended(w) =>
            /\ workers[w].ret.path \in DOMAIN entries
            /\ workers[w].ret = Sequential(archive, entries, workers[w].ret.path)

\* Two calls on distinct paths, one of them on a file of two blocks, ran at
\* the same time and both returned data.
C17_Witness ==
    /\ \A w \in Workers :
         /\ workers[w].ret.result = "ok"
         /\ workers[w].overlap
    /\ workers[1].ret.path # workers[2].ret.path
    /\ \E w \in Workers : Len(entries[workers[w].ret.path].block_sizes) = 2
    /\ workers[1].h.pos # workers[2].h.pos

\* The with block of the batch has been left.
BatchOver == batch.state \in {"leaving", "closed", "reported"}

BatchWork == <<batch.attempts, batch.exported_count, batch.failed_files, batch.i>>

\* C22: cancellation takes effect only between files: once it has been
\* observed, no further file of the batch is extracted or written, and a
\* file whose extraction has started is carried through to its own success
\* or failure before the batch can be left.
C22_Theorem ==
    [][ /\ (batch.left = "break") =>
              /\ BatchWork' = BatchWork
              /\ iolog' = iolog
              /\ ret' = ret
        /\ (batch.state = "called") =>
              \/ batch' = batch
              \/ /\ batch'.state = "loop"
                 /\ ~uf.active
                 /\ batch'.i = batch.i + 1
                 /\ \/ batch'.exported_count = batch.exported_count + 1
                    \/ batch'.failed_files
                         = Append(batch.failed_files, batch.files[batch.i + 1])
      ]_vars

\* A batch of two files was cancelled after its first file, a file of two
\* blocks, had been exported; the second file was not attempted.
C22_Witness ==
    /\ batch.state = "closed"
    /\ batch.left = "break"
    /\ Len(batch.files) = 2
    /\ batch.attempts = <<batch.files[1]>>
    /\ batch.exported_count = 1
    /\ Len(iolog) = 3
    /\ ret.path = batch.files[1]

\* C28: at the end of every export batch, also one cancelled part-way and
\* one with failures, the number of files the message reports as exported
\* equals exported_count, the number extracted and written.
C28_Claim ==
    batch.state = "reported" => batch.reported = batch.exported_count

\* What holds instead: the message is right for a batch that ran to its end
\* and for a batch without failures.
C28_Uncancelled ==
    (batch.state = "reported"
       /\ (batch.left = "end" \/ batch.failed_files = <<>>)) =>
        batch.reported = batch.exported_count

\* C25: whenever unpack_file returns, the returned buffer has exactly
\* entry.original_size bytes, whatever the block-size table holds and
\* whatever lengths the blocks decode to.
C25_Claim ==
    (ret.result = "ok" /\ ret.path \in DOMAIN entries) =>
        BLen(ret.data) = entries[ret.path].original_size

\* What holds instead: the buffer never shrinks, and it has original_size
\* bytes when the cursor ends within it.
C25_NeverShorter ==
    (ret.result = "ok" /\ ret.path \in DOMAIN entries) =>
        /\ BLen(ret.data) >= entries[ret.path].original_size
        /\ ret.buffer_pos <= entries[ret.path].original_size =>
              BLen(ret.data) = entries[ret.path].original_size

\* ------------------------------ with-scopes on one reader, nested
\* How many with-scopes are entered at most.
MaxDepth == 2

\* What a step inside the scopes leaves alone.
NestLoaded ==
    <<archive, pc, lm, entries, warning, raised, emitted, batch, workers,
      tree, widget, update, game>>

\* with reader: __enter__ calls open() and returns the reader
NestEnter ==
    /\ pc = "ready"
    /\ ~uf.active
    /\ Len(scopes) < MaxDepth
    /\ \E ok \in BOOLEAN :
         /\ file_handle' = OpenCall(file_handle, ok).h
         /\ live' = live + OpenCall(file_handle, ok).acquired
         /\ open_ret' = PyBool(OpenCall(file_handle, ok).result)
         /\ scopes' = Append(scopes, OpenCall(file_handle, ok).result)
    /\ last_op' = "open"
    /\ UNCHANGED <<uf, ret, prev_failed, iolog>>
    /\ UNCHANGED NestLoaded

\* reader.unpack_file(...) in the body of the innermost scope
NestCall ==
    /\ scopes # <<>>
    /\ ~uf.active
    /\ \E file_path \in DOMAIN entries : DoCall(file_path)
    /\ UNCHANGED <<live, scopes>>
    /\ UNCHANGED NestLoaded

\* the innermost scope is left: __exit__ calls close()
NestExit ==
    /\ scopes # <<>>
    /\ ~uf.active
    /\ file_handle' = ScopeExit(file_handle, "end").h
    /\ live' = live - ScopeExit(file_handle, "end").released
    /\ scopes' = SubSeq(scopes, 1, Len(scopes) - 1)
    /\ last_op' = "close"
    /\ open_ret' = ""
    /\ UNCHANGED <<uf, ret, prev_failed, iolog>>
    /\ UNCHANGED NestLoaded

\* The reader is loaded and used inside with-scopes.
NextNest ==
    \/ LoadEnter
    \/ LoadHeader
    \/ LoadFileMetadata
    \/ LoadFilePathData
    \/ LoadBlockSizes
    \/ LoadEntry
    \/ LoadExit
    \/ LoaderRun
    \/ NestEnter
    \/ NestCall
    \/ UnpackBlock
    \/ UnpackReturn
    \/ NestExit

SpecNest == Init /\ [][NextNest]_vars

\* C27: when with-scopes on one reader are nested, the handle an outer scope
\* opened stays open until the outermost scope is left, so that unpack_file
\* in the rest of the outer scope does not fail for want of a handle.
C27_Claim ==
    (scopes # <<>> /\ scopes[1]) =>
        /\ file_handle.open
        /\ last_op = "unpack_file" => ret.result # "ValueError"

\* What holds instead: the handle is open as long as no scope has been left
\* since the last one was entered with an open handle.
C27_Innermost ==
    (scopes # <<>> /\ scopes[Len(scopes)] /\ last_op # "close"
       /\ ~(last_op = "unpack_file" /\ ret.result = "ValueError")) =>
        file_handle.open

\* ------------------------------------------- ArchiveModel._build_tree
\* The catalog keys the tree is built from.
TreeKeys ==
    { <<"b">>, <<"a">>, <<"a", "/", "b">>, <<"/", "b">>,
      <<"a", "/", "/", "b">>, <<"/", "/", "b">>, <<"b", "/">> }

\* The key of the root node in dir_nodes: ""
Root == <<>>

\* name.split('/')
RECURSIVE Split(_)
Split(name) ==
    LET cuts == { i \in 1..Len(name) : name[i] = "/" }
    IN  IF cuts = {} THEN <<name>>
        ELSE LET i == CHOOSE c \in cuts : \A d \in cuts : c <= d
             IN  <<SubSeq(name, 1, i - 1)>>
                 \o Split(SubSeq(name, i + 1, Len(name)))

\* current_path in dir_nodes
InDirNodes(dirs, current_path) ==
    current_path = Root \/ \E d \in dirs : d.key = current_path

\* The loop over path_parts[:-1], from its turn i on: the directory nodes
\* afterwards and the key of current_node.
RECURSIVE Descend(_, _, _, _)
Descend(dirs, path_parts, i, current_path) ==
    IF i > Len(path_parts) - 1
    THEN [dirs |-> dirs, current |-> current_path]
    ELSE LET part == path_parts[i]
             next == IF current_path # <<>>
                     THEN current_path \o <<"/">> \o part
                     ELSE part
         IN  IF InDirNodes(dirs, next)
             THEN Descend(dirs, path_parts, i + 1, next)
             ELSE Descend(dirs \cup {[key |-> next, name |-> part,
                                      parent |-> current_path]},
                          path_parts, i + 1, next)

\* One turn of the loop over the entries: the directories of the name, then
\* its file node.
AddEntry(t, name) ==
    LET path_parts == Split(name)
        walk == Descend(t.dirs, path_parts, 1, Root)
    IN  [t EXCEPT
           !.dirs = walk.dirs,
           !.files = @ \cup {[key |-> name,
                              name |-> path_parts[Len(path_parts)],
                              parent |-> walk.current]}]

\* The loop over the entries of the reader.
RECURSIVE AddEntries(_, _)
AddEntries(t, names) ==
    IF names = {} THEN t
    ELSE LET name == CHOOSE n \in names : TRUE
         IN  AddEntries(AddEntry(t, name), names \ {name})

\* TreeNode.path of the directory node with the key dir_key
RECURSIVE DirPath(_, _)
DirPath(dirs, dir_key) ==
    LET d == CHOOSE n \in dirs : n.key = dir_key
    IN  IF d.parent = Root THEN d.name
        ELSE DirPath(dirs, d.parent) \o <<"/">> \o d.name

\* TreeNode.path of a file node
NodePath(t, file_node) ==
    IF file_node.parent = Root THEN file_node.name
    ELSE DirPath(t.dirs, file_node.parent) \o <<"/">> \o file_node.name

\* ArchiveModel.set_data
SetData ==
    /\ ~tree.built
    /\ tree' = [AddEntries(tree, tree.keys) EXCEPT !.built = TRUE]
    /\ UNCHANGED <<archive, pc, lm, entries, file_handle, warning, raised,
                   emitted, uf, ret, prev_failed, last_op, open_ret, live,
                   iolog, batch, workers, scopes, widget, update, game>>

\* the try block of the export for one file node: relative_path, and the
\* lookup of unpack_file
ExportNode ==
    /\ tree.built
    /\ \E file_node \in tree.files :
         LET relative_path == NodePath(tree, file_node)
         IN  tree' = [tree EXCEPT
                        !.picked = TRUE,
                        !.node = file_node.key,
                        !.relative_path = relative_path,
                        !.result = IF relative_path \in tree.keys
                                   THEN "found" ELSE "FileNotFoundError"]
    /\ UNCHANGED <<archive, pc, lm, entries, file_handle, warning, raised,
                   emitted, uf, ret, prev_failed, last_op, open_ret, live,
                   iolog, batch, workers, scopes, widget, update, game>>

NextTree ==
    \/ SetData
    \/ ExportNode

\* A catalog of some of the keys is shown as a tree and exported from.
InitTree ==
    /\ ReaderInit(MkArchive(<<>>, "none"))
    /\ \E keys \in SUBSET TreeKeys : tree = [NoTree EXCEPT !.keys = keys]
    /\ widget = NoWidget
    /\ update = NoUpdate
    /\ game = NoGame

SpecTree == InitTree /\ [][NextTree]_vars

\* C23: for every catalog key the tree holds exactly one file node, the
\* node's path() is the key, and exporting the node calls unpack_file with a
\* path of the catalog; also for keys with a leading '/' or empty components.
C23_Claim ==
    tree.built =>
        /\ \A k \in tree.keys :
             /\ Cardinality({f \in tree.files : f.key = k}) = 1
             /\ \A f \in tree.files : f.key = k => NodePath(tree, f) = k
        /\ tree.picked =>
             /\ tree.relative_path = tree.node
             /\ tree.result = "found"

\* What holds instead: one file node per key, and path() is the key for
\* every key that does not begin with '/'.
C23_NoLeadingSlash ==
    tree.built =>
        \A k \in tree.keys :
            /\ Cardinality({f \in tree.files : f.key = k}) = 1
            /\ (k # <<>> /\ k[1] # "/") =>
                  \A f \in tree.files : f.key = k => NodePath(tree, f) = k

\* ------------------------------------------ ArchiveContainerWidget
\* How many loaders the widget starts at most.
MaxLoaders == 3

\* The archives of the combo box.
ComboArchives == {"ps2data.vbf", "FFXII_TZA.vbf"}

\* What a step of the widget leaves alone.
NotWidget ==
    <<archive, pc, lm, entries, file_handle, warning, raised, emitted, uf,
      ret, prev_failed, last_op, open_ret, live, iolog, batch, workers,
      scopes, tree, update, game>>

\* _clear_current_content: a loader that is still running is disconnected
\* and forgotten; the content widget is removed. Loaders and content widgets
\* are named by the number of the loader they were created with.
ClearCurrentContent(w) ==
    LET running == w.loader # 0 /\ w.loaders[w.loader].state = "running"
    IN  [w EXCEPT
           !.loaders = IF running
                       THEN [@ EXCEPT ![w.loader].connected = FALSE]
                       ELSE @,
           !.loader = IF running THEN 0 ELSE @,
           !.current_content = 0,
           !.content_data = 0]

\* _load_selected: a new content widget and a new loader for archive_path
LoadSelected(w, archive_path) ==
    LET c == ClearCurrentContent(w)
        id == Len(w.loaders) + 1
    IN  [c EXCEPT
           !.current_content = id,
           !.loader = id,
           !.loaders = Append(@, [archive_path |-> archive_path,
                                  state |-> "running",
                                  connected |-> TRUE])]

\* _on_load_finished_callback for the signal of loader l
OnLoadFinished(w, l) ==
    [w EXCEPT
       !.content_data = IF w.current_content # 0 THEN l ELSE @,
       !.loader = 0,
       !.loaders = [@ EXCEPT ![l].state = "delivered"],
       !.delivered = [from |-> l, applied_to |-> w.current_content,
                      discarded |-> w.loader]]

\* showEvent: the first archive is loaded when there is no content widget
ShowEvent ==
    /\ ~widget.shown
    /\ Len(widget.loaders) < MaxLoaders
    /\ widget' =
         IF widget.current_content = 0
         THEN [LoadSelected(widget, CHOOSE a \in ComboArchives : TRUE)
                 EXCEPT !.shown = TRUE]
         ELSE [widget EXCEPT !.shown = TRUE]
    /\ UNCHANGED NotWidget

\* hideEvent
HideEvent ==
    /\ widget.shown
    /\ widget' = [ClearCurrentContent(widget) EXCEPT !.shown = FALSE]
    /\ UNCHANGED NotWidget

\* the user picks an archive: currentIndexChanged -> _load_selected
SelectArchive ==
    /\ widget.shown
    /\ Len(widget.loaders) < MaxLoaders
    /\ \E archive_path \in ComboArchives :
         widget' = LoadSelected(widget, archive_path)
    /\ UNCHANGED NotWidget

\* ArchiveLoader.run ends in the loader's thread: the signal is emitted and
\* waits in the event queue of the GUI thread; isRunning() is False from now
LoaderEnds ==
    /\ \E l \in 1..Len(widget.loaders) :
         /\ widget.loaders[l].state = "running"
         /\ widget' = [widget EXCEPT !.loaders[l].state = "pending"]
    /\ UNCHANGED NotWidget

\* the GUI thread takes the signal of a loader from its event queue
DeliverFinished ==
    /\ \E l \in 1..Len(widget.loaders) :
         /\ widget.loaders[l].state = "pending"
         /\ widget' =
              IF widget.loaders[l].connected
              THEN OnLoadFinished(widget, l)
              ELSE [widget EXCEPT !.loaders[l].state = "dropped"]
    /\ UNCHANGED NotWidget

NextWidget ==
    \/ ShowEvent
    \/ HideEvent
    \/ SelectArchive
    \/ LoaderEnds
    \/ DeliverFinished

InitWidget ==
    /\ ReaderInit(MkArchive(<<>>, "none"))
    /\ tree = NoTree
    /\ widget = NoWidget
    /\ update = NoUpdate
    /\ game = NoGame

SpecWidget == InitWidget /\ [][NextWidget]_vars

\* C26: a reader delivered by a loader is applied only to the content widget
\* created for that loader, and only the loader that delivered is discarded:
\* the result of a superseded loader, whose signal was pending when the
\* selection changed, is never loaded into the newer content widget and
\* never clears the newer loader.
C26_Claim ==
    /\ widget.delivered.applied_to \in {0, widget.delivered.from}
    /\ widget.delivered.discarded \in {0, widget.delivered.from}
    /\ widget.content_data \in {0, widget.current_content}

\* What holds instead: the result of a loader that was still running when
\* it was superseded is never delivered.
C26_RunningSuperseded ==
    \A l \in 1..Len(widget.loaders) :
        ~widget.loaders[l].connected =>
            /\ widget.loaders[l].state # "delivered"
            /\ widget.delivered.from # l

\* ------------------------------- UpdateChecker._download_and_update
\* The targets the checker is constructed with.
UpdateTargets == <<"game_ff12.py", "ff12">>
RemoveTargetLists == { <<>>, <<"games">>, <<"games", "ff12">> }

\* What a step of the update leaves alone.
NotUpdate ==
    <<archive, pc, lm, entries, file_handle, warning, raised, emitted, uf,
      ret, prev_failed, last_op, open_ret, live, iolog, batch, workers,
      scopes, tree, widget, game>>

\* How a file operation of _replace_plugin_files can end.
FileErrors == {"FileNotFoundError", "OSError", "Exception"}

\* The except clauses of _replace_plugin_files: what the function does with
\* an exception of its try block. FileNotFoundError (and any OSError with
\* errno ENOENT) is passed over and True is returned; another OSError is
\* raised again; any other exception is raised again when changes were made
\* and answered with False when not.
ReplaceHandles(err, changes_done) ==
    CASE err = "FileNotFoundError" -> "True"
      [] err = "OSError" -> "raise"
      [] OTHER -> IF changes_done THEN "raise" ELSE "False"

\* The targets of update_targets that are in found, in their order.
RECURSIVE FoundIn(_, _)
FoundIn(targets, found) ==
    IF targets = <<>> THEN <<>>
    ELSE (IF targets[1] \in found THEN <<targets[1]>> ELSE <<>>)
         \o FoundIn(SubSeq(targets, 2, Len(targets)), found)

\* _show_error(msg); the code after the try statement is skipped and the
\* finally clause runs
ShowErrorAndLeave(u, msg) == [u EXCEPT !.shown = msg, !.pc = "finally"]

\* _find_zip_asset, tempfile.mkdtemp
UpdateStart ==
    /\ update.pc = "start"
    /\ \E asset \in BOOLEAN :
         update' = IF asset
                   THEN [update EXCEPT !.pc = "download", !.tmpdir = TRUE]
                   ELSE [update EXCEPT !.pc = "returned",
                                       !.shown = "No zip asset found"]
    /\ UNCHANGED NotUpdate

\* _download_asset
UpdateDownload ==
    /\ update.pc = "download"
    /\ \E ok \in BOOLEAN :
         update' = IF ok THEN [update EXCEPT !.pc = "extract"]
                   ELSE ShowErrorAndLeave(update, "Update failed")
    /\ UNCHANGED NotUpdate

\* _extract_update_files and the test for missing targets
UpdateExtract ==
    /\ update.pc = "extract"
    /\ \E ok \in BOOLEAN, found \in SUBSET { update.update_targets[i] :
                                              i \in DOMAIN update.update_targets } :
         LET found_targets == FoundIn(update.update_targets, found)
         IN  update' =
               IF ~ok THEN ShowErrorAndLeave(update, "Update failed")
               ELSE IF Len(found_targets) < Len(update.update_targets)
               THEN ShowErrorAndLeave(update, "Update package missing")
               ELSE [update EXCEPT !.pc = "backup",
                                   !.found_targets = found_targets]
    /\ UNCHANGED NotUpdate

\* _backup_targets: makedirs(backup_dir), then the copies
UpdateBackup ==
    /\ update.pc = "backup"
    /\ \E made \in BOOLEAN, ok \in BOOLEAN :
         update' =
           IF made /\ ok
           THEN [update EXCEPT !.pc = "remove", !.backup_dir = TRUE]
           ELSE [ShowErrorAndLeave(update, "Update failed")
                   EXCEPT !.backup_dir = made]
    /\ UNCHANGED NotUpdate

\* _replace_plugin_files has ended with result: True, False or raise
ReplaceEnds(u, result) ==
    CASE result = "True" -> [u EXCEPT !.replaced = result, !.pc = "restart"]
      [] result = "False" ->
           [ShowErrorAndLeave(u, "Failed to replace, no changes were made")
              EXCEPT !.replaced = result]
      [] OTHER -> [u EXCEPT !.replaced = result, !.pc = "restore"]

\* _replace_plugin_files, one turn of the loop over remove_targets; after
\* the last turn the loop over found_targets follows
UpdateRemove ==
    /\ update.pc = "remove"
    /\ IF update.remove_i = Len(update.remove_targets)
       THEN update' = [update EXCEPT !.pc = "copy"]
       ELSE \E how \in {"removed", "absent"} \cup FileErrors :
              update' =
                CASE how = "removed" ->
                       [update EXCEPT !.remove_i = @ + 1,
                                      !.changes_done = TRUE]
                  [] how = "absent" -> [update EXCEPT !.remove_i = @ + 1]
                  [] OTHER ->
                       ReplaceEnds(update,
                                   ReplaceHandles(how, update.changes_done))
    /\ UNCHANGED NotUpdate

\* _replace_plugin_files, one turn of the loop over found_targets; after the
\* last turn it returns True
UpdateCopy ==
    /\ update.pc = "copy"
    /\ IF update.copy_i = Len(update.found_targets)
       THEN update' = ReplaceEnds(update, "True")
       ELSE \E how \in {"copied"} \cup FileErrors :
              update' =
                IF how = "copied"
                THEN [update EXCEPT !.copy_i = @ + 1, !.changes_done = TRUE]
                ELSE ReplaceEnds(update,
                                 ReplaceHandles(how, update.changes_done))
    /\ UNCHANGED NotUpdate

\* _restore_targets after _replace_plugin_files has raised
UpdateRestore ==
    /\ update.pc = "restore"
    /\ \E ok \in BOOLEAN :
         update' =
           IF ok
           THEN [ShowErrorAndLeave(update, "Changes have been reverted")
                   EXCEPT !.restored = "ok"]
           ELSE [ShowErrorAndLeave(update, "Please copy files manually")
                   EXCEPT !.restored = "raised", !.opened = TRUE]
    /\ UNCHANGED NotUpdate

\* _show_restart_dialog, update_installed.emit
UpdateRestart ==
    /\ update.pc = "restart"
    /\ \E ok \in BOOLEAN :
         update' =
           IF ok THEN [update EXCEPT !.installed = TRUE, !.pc = "finally"]
           ELSE ShowErrorAndLeave(update, "Update failed")
    /\ UNCHANGED NotUpdate

\* finally: shutil.rmtree(tmpdir, ignore_errors=True); backup_dir is a
\* directory of tmpdir
UpdateFinally ==
    /\ update.pc = "finally"
    /\ update' = [update EXCEPT !.pc = "returned", !.tmpdir = FALSE,
                                !.backup_dir = FALSE]
    /\ UNCHANGED NotUpdate

NextUpdate ==
    \/ UpdateStart
    \/ UpdateDownload
    \/ UpdateExtract
    \/ UpdateBackup
    \/ UpdateRemove
    \/ UpdateCopy
    \/ UpdateRestore
    \/ UpdateRestart
    \/ UpdateFinally

InitUpdate ==
    /\ ReaderInit(MkArchive(<<>>, "none"))
    /\ tree = NoTree
    /\ widget = NoWidget
    /\ game = NoGame
    /\ \E remove_targets \in RemoveTargetLists :
         update = [NoUpdate EXCEPT !.update_targets = UpdateTargets,
                                   !.remove_targets = remove_targets]

SpecUpdate == InitUpdate /\ [][NextUpdate]_vars

\* C24: update_installed is emitted only when the update was installed:
\* every remove target has been dealt with and every update target found in
\* the package has been copied; when the replacement stops early, it is not
\* emitted.
C24_Claim ==
    update.installed =>
        /\ update.remove_i = Len(update.remove_targets)
        /\ update.copy_i = Len(update.found_targets)

\* What holds instead: update_installed is emitted only after
\* _replace_plugin_files has returned True.
C24_AfterTrue ==
    update.installed => update.replaced = "True"

\* C30: when replacing the plugin files fails and restoring them fails too,
\* the backup directory the user is told to copy from still exists when
\* _download_and_update returns; in every other outcome the temporary
\* directory is removed.
C30_Claim ==
    update.pc = "returned" =>
        IF update.replaced = "raise" /\ update.restored = "raised"
        THEN update.backup_dir
        ELSE ~update.tmpdir

\* What holds instead: the temporary directory, the backup in it included,
\* is removed in every outcome.
C30_AlwaysRemoved ==
    update.pc = "returned" => (~update.tmpdir /\ ~update.backup_dir)

\* ------------------------------------------- FF12TZAGame, the Steam id
\* SettingName.AUTO_STEAM_ID and SettingName.STEAM_ID_64
AUTO_STEAM_ID == "autoSteamId"
STEAM_ID_64 == "steamId64"

\* The Steam ids of the model; "" stands for no id (None or an empty value).
SteamIds == {"1", "2", "3"}

\* What a step of the game plugin leaves alone.
NotGame ==
    <<archive, pc, lm, entries, file_handle, warning, raised, emitted, uf,
      ret, prev_failed, last_op, open_ret, live, iolog, batch, workers,
      scopes, tree, widget, update>>

\* A step begins: what the last step did is forgotten.
Forget(g) ==
    [g EXCEPT !.raised = FALSE, !.plugin_wrote = "",
              !.switched_off_after = ""]

\* The organizer stores the value of a plugin setting.
Store(g, key, value) ==
    IF key = AUTO_STEAM_ID THEN [g EXCEPT !.auto_steam_id = value]
    ELSE [g EXCEPT !.steam_id_64 = value]

\* settings_manager().get_setting(key)
GetSetting(g, key) ==
    IF key = AUTO_STEAM_ID THEN g.auto_steam_id ELSE g.steam_id_64

RECURSIVE SetSetting(_, _, _, _, _, _)
RECURSIVE SetLastLoggedSteamId(_, _, _, _)
RECURSIVE OnPluginSettingChangedCallback(_, _, _, _, _, _)

\* settings_manager().set_setting(key, value), that is
\* organizer.setPluginSetting: it raises when key is in fails; else it
\* stores the value and, when it delivers, calls the registered callback
\* before it returns. origin tells who wrote: "init" and "callback" are the
\* plugin's auto-detection, "outside" is anybody else.
SetSetting(g, key, value, origin, fails, delivers) ==
    IF g.raised THEN g
    ELSE IF key \in fails THEN [g EXCEPT !.raised = TRUE]
    ELSE LET old == GetSetting(g, key)
             stored == Store(g, key, value)
             wrote == IF key = STEAM_ID_64 /\ origin # "outside"
                      THEN [stored EXCEPT !.plugin_wrote = origin]
                      ELSE stored
         IN  IF delivers
             THEN OnPluginSettingChangedCallback(wrote, key, old, value,
                                                 origin, fails)
             ELSE wrote

\* _set_last_logged_steam_id; _get_last_logged_steam_id returns
\* g.last_logged, and "" when it finds none
SetLastLoggedSteamId(g, origin, fails, delivers) ==
    LET last_steam_id == g.last_logged
        cur_steam_id == GetSetting(g, STEAM_ID_64)
    IN  IF last_steam_id = "" THEN g
        ELSE IF last_steam_id = cur_steam_id THEN g
        ELSE SetSetting(g, STEAM_ID_64, last_steam_id, origin, fails,
                        delivers)

\* _on_plugin_setting_changed_callback for a setting of this plugin; the
\* finally clauses reset the flag also when the call in them has raised
OnPluginSettingChangedCallback(g, setting, old, new, origin, fails) ==
    IF g.suppress_setting_callback = TRUE THEN g
    ELSE IF setting = AUTO_STEAM_ID /\ old = FALSE /\ new = TRUE
    THEN [SetLastLoggedSteamId(
              [g EXCEPT !.suppress_setting_callback = TRUE],
              "callback", fails, TRUE)
            EXCEPT !.suppress_setting_callback = FALSE]
    ELSE IF setting = STEAM_ID_64 /\ old # new
    THEN IF GetSetting(g, AUTO_STEAM_ID) = TRUE
         THEN LET off == SetSetting(
                           [g EXCEPT !.suppress_setting_callback = TRUE],
                           AUTO_STEAM_ID, FALSE, origin, fails, TRUE)
              IN  [off EXCEPT !.suppress_setting_callback = FALSE,
                              !.switched_off_after =
                                  IF off.raised THEN @ ELSE origin]
         ELSE g
    ELSE g

\* init(organizer): the callback is registered, then the id is detected when
\* AUTO_STEAM_ID is True. Whether the organizer already delivers the
\* callback for a write made during init is the organizer's business.
GameInit ==
    /\ game.phase = "new"
    /\ \E fails \in SUBSET {AUTO_STEAM_ID, STEAM_ID_64},
          delivers \in BOOLEAN :
         LET g == [Forget(game) EXCEPT !.phase = "ready"]
         IN  game' = IF GetSetting(g, AUTO_STEAM_ID) = TRUE
                     THEN SetLastLoggedSteamId(g, "init", fails, delivers)
                     ELSE g
    /\ UNCHANGED NotGame

\* Somebody outside the plugin (the settings dialog) writes AUTO_STEAM_ID.
OutsideSetsAuto ==
    /\ game.phase = "ready"
    /\ \E value \in BOOLEAN, fails \in SUBSET {AUTO_STEAM_ID, STEAM_ID_64} :
         game' = SetSetting(Forget(game), AUTO_STEAM_ID, value, "outside",
                            fails, TRUE)
    /\ UNCHANGED NotGame

\* Somebody outside the plugin writes STEAM_ID_64.
OutsideSetsSteamId ==
    /\ game.phase = "ready"
    /\ \E value \in SteamIds \cup {""},
          fails \in SUBSET {AUTO_STEAM_ID, STEAM_ID_64} :
         game' = SetSetting(Forget(game), STEAM_ID_64, value, "outside",
                            fails, TRUE)
    /\ UNCHANGED NotGame

\* Another user logs in to Steam, or loginusers.vdf goes away: what
\* _get_last_logged_steam_id returns changes.
SteamLogin ==
    /\ \E id \in SteamIds \cup {""} :
         /\ id # game.last_logged
         /\ game' = [game EXCEPT !.last_logged = id]
    /\ UNCHANGED NotGame

NextGame ==
    \/ GameInit
    \/ OutsideSetsAuto
    \/ OutsideSetsSteamId
    \/ SteamLogin

InitGame ==
    /\ ReaderInit(MkArchive(<<>>, "none"))
    /\ tree = NoTree
    /\ widget = NoWidget
    /\ update = NoUpdate
    /\ \E auto \in BOOLEAN, id \in SteamIds \cup {""},
          last \in SteamIds \cup {""} :
         game = [NoGame EXCEPT !.auto_steam_id = auto, !.steam_id_64 = id,
                               !.last_logged = last]

SpecGame == InitGame /\ [][NextGame]_vars

\* C29: when the plugin itself writes STEAM_ID_64 in auto-detection (in init
\* with AUTO_STEAM_ID true, or when AUTO_STEAM_ID goes from false to true),
\* the callback of that write does not switch AUTO_STEAM_ID off; it is
\* switched off only after a write of STEAM_ID_64 from outside the plugin;
\* and the suppression flag is False after every callback, also when
\* auto-detection raises.
C29_Claim ==
    /\ game.switched_off_after \in {"", "outside"}
    /\ game.suppress_setting_callback = FALSE

\* What holds instead: the flag is False after every step, and a write of
\* the plugin switches AUTO_STEAM_ID off only when it was made in init.
C29_OnlyInit ==
    /\ game.suppress_setting_callback = FALSE
    /\ game.switched_off_after \notin {"", "outside"}
         => (game.switched_off_after = "init" /\ game.plugin_wrote = "init")
    /\ game.plugin_wrote = "callback" => game.auto_steam_id = TRUE

====
